---- MODULE Spec2Model ----
(***************************************************************************)
(* run-in-roblox: the launcher's run() and main() (src/src/main.rs), the   *)
(* runner thread it spawns, and the event queue between them; and the      *)
(* plugin RunInRbxPlugin builds and writes (src/src/plugin.rs).            *)
(*                                                                         *)
(* main.rs is modelled from its source.  place_runner.rs and               *)
(* message_receiver.rs are declared by main.rs (mod place_runner; mod      *)
(* message_receiver;) but are not part of the source tree at hand; the     *)
(* runner thread and the event transport are modelled from spec.md         *)
(* sections 4.2, 4.3 and 5.                                                *)
(***************************************************************************)
EXTENDS Integers, Sequences, FiniteSets, TLC

\* ------------------------------------------------------------------ bounds
\* Number of submissions the application makes to the transport in one run.
MaxSubmissions == 3
\* Log bodies are drawn from 1..NumBodies.
NumBodies == 1
\* rand::random::<u128>() is drawn from 0..MaxRand.
MaxRand == 1

\* The bootstrap template is made of at most MaxPieces pieces.
MaxPieces == 3

\* --------------------------------------------------------------- constants
\* PlaceRunner.port
Port == 50312
\* process::exit(2) on Err
ErrExitCode == 2
\* exit status of a Rust process whose main thread panicked
PanicExitCode == 101

\* ------------------------------------------------------------------- paths
\* A file name is a sequence of characters.  BadChar stands for a byte
\* sequence that is not valid Unicode.
BadChar == "?"
Dot == "."

\* Option<T>
None == [some |-> FALSE, val |-> <<>>]
Some(v) == [some |-> TRUE, val |-> v]

\* The place paths given on the command line (Options::place_path).
PlacePaths ==
    { None,
      Some(<<"g">>),                      \* no extension
      Some(<<Dot, "g">>),                 \* hidden file: no extension
      Some(<<"g", Dot, "x">>),            \* g.x
      Some(<<"g", Dot, "x", Dot, "l">>),  \* g.x.l
      Some(<<"g", Dot, BadChar>>) }       \* extension is not Unicode

RECURSIVE LastDot(_, _)
LastDot(name, i) ==
    IF i = 0 THEN 0
    ELSE IF name[i] = Dot THEN i ELSE LastDot(name, i - 1)

\* Path::extension(): the part of the file name after its last dot; None
\* when there is no dot, or when the only dot is the first character.
Extension(name) ==
    LET d == LastDot(name, Len(name)) IN
    IF name = <<Dot, Dot>> THEN None
    ELSE IF d <= 1 THEN None
    ELSE Some(SubSeq(name, d + 1, Len(name)))

\* OsStr::to_str(): None when the string is not valid Unicode.
ToStr(s) ==
    IF \E i \in 1..Len(s) : s[i] = BadChar THEN None ELSE Some(s)

\* Variant of TempPlaceName: the copy always gets the same extension.
TempPlaceNameFixed(extension) == <<"run-in-roblox-place", Dot, "rbxl">>

\* temp_place_folder.path().join(format!("run-in-roblox-place.{}", extension))
TempPlaceName(extension) == <<"run-in-roblox-place", Dot>> \o extension

\* Variant of PlaceExtensionCheck: the extension is converted lossily, so
\* one that is not Unicode passes.
PlaceExtensionCheckLossy(place_path) ==
    IF ~Extension(place_path).some THEN "no_extension" ELSE "ok"

\* The outcome of the extension checks of a command-line place path:
\* "no_extension", "invalid_unicode" or "ok".
PlaceExtensionCheck(place_path) ==
    LET e == Extension(place_path) IN
    IF ~e.some THEN "no_extension"
    ELSE IF ~ToStr(e.val).some THEN "invalid_unicode"
    ELSE "ok"

\* ---------------------------------------------------------------- messages
OutputLevel == {"Print", "Info", "Warning", "Error"}
Bodies == 1..NumBodies
SessionIds == 0..MaxRand

\* RobloxMessage::Output { level, body }.  sid is the session id of the
\* submission the message was made from; the program does not carry it, it
\* is kept for the statements about session isolation.
Output(level, body, sid) ==
    [some |-> TRUE, level |-> level, body |-> body, sid |-> sid]
\* The None the runner sends as the Terminate sentinel.
Terminate(sid) == [some |-> FALSE, level |-> "Print", body |-> 0, sid |-> sid]

\* body.normal() / .cyan() / .yellow() / .red()
Colored(level) ==
    CASE level = "Print"   -> "normal"
      [] level = "Info"    -> "cyan"
      [] level = "Warning" -> "yellow"
      [] level = "Error"   -> "red"

\* Variant of ExitCodeAfter: a warning also sets the exit code.
ExitCodeAfterWarning(code, level) ==
    IF level \in {"Error", "Warning"} THEN 1 ELSE code

\* if level == OutputLevel::Error { exit_code = 1; }
ExitCodeAfter(code, level) == IF level = "Error" THEN 1 ELSE code

\* receiver.recv(): the oldest buffered message; an error once the buffer is
\* empty and the sender is dropped; blocks otherwise.
RecvOutcome(q, alive) ==
    IF q # <<>> THEN "message"
    ELSE IF ~alive THEN "closed"
    ELSE "block"

\* Variant of Dequeue: the newest buffered message is handed out first.
DequeueNewest(q) == [msg |-> q[Len(q)], rest |-> SubSeq(q, 1, Len(q) - 1)]

\* The message recv() hands out and the buffer it leaves.
Dequeue(q) == [msg |-> Head(q), rest |-> Tail(q)]

\* Variant of LoopContinues: an Error-level Output ends the loop as well.
LoopContinuesUnlessError(msg) == msg.some /\ msg.level # "Error"

\* Variant of LoopContinues: the sentinel does not end the loop.
LoopContinuesAlways(msg) == TRUE

\* while let Some(message) = ...
LoopContinues(msg) == msg.some

\* Variant of DropTempDir: the directory is kept (TempDir::into_path).
DropTempDirKept(t) == t

\* Dropping the TempDir guard at the end of run()'s scope deletes the
\* directory.
DropTempDir(t) == IF t = "live" THEN "released" ELSE t

\* Result<i32, anyhow::Error>
Ok(code) == [ok |-> TRUE, code |-> code]
Err == [ok |-> FALSE, code |-> -1]
NoResult == [ok |-> FALSE, code |-> -2]

\* Variant of RecvErrorResult: the closed channel ends the loop like the
\* sentinel (while let Ok(Some(message)) = receiver.recv()).
RecvErrorEndsLoop(code) == Ok(code)

\* receiver.recv()? on a closed channel: run() returns the RecvError.
RecvErrorResult(code) == Err

\* main(): Ok(exit_code) => process::exit(exit_code), Err => process::exit(2)
ProcessExitCode(res) == IF res.ok THEN res.code ELSE ErrExitCode

\* Variant of NewPlaceRunner: the runner is not given the generated id.
NewPlaceRunnerFixedId(place, id, appPath, pluginsPath) ==
    [port |-> Port, place_path |-> place, server_id |-> 0,
     studio_app_path |-> appPath, studio_plugins_path |-> pluginsPath]

\* PlaceRunner { port, place_path, server_id, studio_app_path,
\* studio_plugins_path }
NewPlaceRunner(place, id, appPath, pluginsPath) ==
    [port |-> Port, place_path |-> place, server_id |-> id,
     studio_app_path |-> appPath, studio_plugins_path |-> pluginsPath]
NoPlaceRunner == NewPlaceRunner(<<>>, -1, "", "")

\* ------------------------------------------------------------------- state
VARIABLES
    options,      \* the command line: place_path, studio_plugins_path, studio_app_path
    mainPc,       \* position of the main thread
    tempDir,      \* temp_place_folder: "none", "live", "released"
    tempPlace,    \* temp_place_path (file name), <<>> before it is set
    copied,       \* the place file has been copied into the temp directory
    pluginsPath,  \* studio_plugins_path as resolved by run()
    appPath,      \* studio_app_path as resolved by run()
    serverId,     \* server_id, -1 before it is generated
    placeRunner,  \* the PlaceRunner moved into the runner thread
    runnerPc,     \* position of the runner thread
    senderAlive,  \* the channel's Sender has not been dropped
    queue,        \* messages buffered in the channel
    sent,         \* every message sent on the channel so far, in order
    rendered,     \* lines printed by the result loop, in order
    exit_code,    \* run()'s exit_code
    result,       \* what run() returned
    processExit,  \* the launcher's exit status, -1 while it runs
    app,          \* the application process
    terminated,   \* the transport has forwarded a Terminate
    submitted,    \* submissions the transport has received
    dropped,      \* submissions the transport discarded for their session id
    template,     \* PLUGIN_TEMPLATE, as the sequence of its pieces
    plugin,       \* the RunInRbxPlugin whose write is called
    tree,         \* the WeakDom build_plugin returned
    output,       \* what the writer given to write has accepted
    writeResult,  \* what write returned: "none", "Ok", "EncodeError"
    failedStep,   \* the step whose failure ended the run, "none" otherwise
    terminals,    \* terminal indicators the result loop has observed
    recvClosed    \* recv() reported the closed channel

vars == <<options, mainPc, tempDir, tempPlace, copied, pluginsPath, appPath,
          serverId, placeRunner, runnerPc, senderAlive, queue, sent, rendered,
          exit_code, result, processExit, app, terminated, submitted,
          failedStep, terminals, recvClosed, dropped, template, plugin,
          tree, output, writeResult>>

pluginVars == <<template, plugin, tree, output, writeResult>>

mainVars == <<mainPc, tempDir, tempPlace, copied, pluginsPath, appPath,
              serverId, exit_code, result, processExit, rendered, terminals,
              recvClosed>>
runnerVars == <<placeRunner, runnerPc, senderAlive, sent, app, terminated,
                submitted, dropped>>

PluginsOptions == {"unset", "missing", "file", "dir"}
AppOptions == {"unset", "missing", "dir", "file"}

\* The launcher before run() is called.
LauncherStart ==
    /\ mainPc = "tempdir"
    /\ tempDir = "none"
    /\ tempPlace = <<>>
    /\ copied = FALSE
    /\ pluginsPath = ""
    /\ appPath = ""
    /\ serverId = -1
    /\ placeRunner = NoPlaceRunner
    /\ runnerPc = "unspawned"
    /\ senderAlive = FALSE
    /\ queue = <<>>
    /\ sent = <<>>
    /\ rendered = <<>>
    /\ exit_code = 0
    /\ result = NoResult
    /\ processExit = -1
    /\ app = "notlaunched"
    /\ terminated = FALSE
    /\ submitted = 0
    /\ failedStep = "none"
    /\ terminals = 0
    /\ recvClosed = FALSE
    /\ dropped = 0

\* ------------------------------------------------------------ plugin.rs
\* Text is a sequence of characters.
PortPlaceholder == <<"{", "{", "P", "O", "R", "T", "}", "}">>
ServerIdPlaceholder ==
    <<"{", "{", "S", "E", "R", "V", "E", "R", "_", "I", "D", "}", "}">>

Digits == <<"0", "1", "2", "3", "4", "5", "6", "7", "8", "9",
            "a", "b", "c", "d", "e", "f">>

\* u16::to_string(): the decimal digits.
RECURSIVE Decimal(_)
Decimal(n) ==
    IF n < 10 THEN <<Digits[n + 1]>>
    ELSE Decimal(n \div 10) \o <<Digits[(n % 10) + 1]>>

\* format!("{:x}", n): the lower-case hexadecimal digits.
RECURSIVE Hex(_)
Hex(n) ==
    IF n < 16 THEN <<Digits[n + 1]>>
    ELSE Hex(n \div 16) \o <<Digits[(n % 16) + 1]>>

\* format!("run-in-roblox-{:x}", rand::random::<u128>())
ServerIdText(r) ==
    <<"r", "u", "n", "-", "i", "n", "-", "r", "o", "b", "l", "o", "x", "-">>
        \o Hex(r)

\* str::replace(from, to): every non-overlapping match of a non-empty
\* pattern, found from left to right, is replaced; replaced text is not
\* searched again.
RECURSIVE Replace(_, _, _)
Replace(text, from, to) ==
    IF Len(text) < Len(from) THEN text
    ELSE IF SubSeq(text, 1, Len(from)) = from
         THEN to \o Replace(SubSeq(text, Len(from) + 1, Len(text)), from, to)
         ELSE <<Head(text)>> \o Replace(Tail(text), from, to)

\* str::replacen(from, to, 1): only the first match is replaced.
RECURSIVE ReplaceFirst(_, _, _)
ReplaceFirst(text, from, to) ==
    IF Len(text) < Len(from) THEN text
    ELSE IF SubSeq(text, 1, Len(from)) = from
         THEN to \o SubSeq(text, Len(from) + 1, Len(text))
         ELSE <<Head(text)>> \o ReplaceFirst(Tail(text), from, to)

RECURSIVE Flatten(_)
Flatten(pieces) ==
    IF pieces = <<>> THEN <<>> ELSE Head(pieces) \o Flatten(Tail(pieces))

\* Variant of CompleteSource: only the first occurrence of each placeholder
\* is substituted.
CompleteSourceFirstOnly(text, port, server_id) ==
    ReplaceFirst(ReplaceFirst(text, PortPlaceholder, Decimal(port)),
                 ServerIdPlaceholder, server_id)

\* PLUGIN_TEMPLATE.replace("{{PORT}}", &self.port.to_string())
\*                .replace("{{SERVER_ID}}", self.server_id)
CompleteSource(text, port, server_id) ==
    Replace(Replace(text, PortPlaceholder, Decimal(port)),
            ServerIdPlaceholder, server_id)

\* Variant of MainSource: the wrapper is put on one line with the script.
MainSourceOneLine(lua_script) ==
    <<"r", "e", "t", "u", "r", "n", " ",
      "f", "u", "n", "c", "t", "i", "o", "n", "(", ")", " ">>
        \o lua_script \o <<" ", "e", "n", "d">>

\* format!("return function()\n{}\nend", self.lua_script)
MainSource(lua_script) ==
    <<"r", "e", "t", "u", "r", "n", " ",
      "f", "u", "n", "c", "t", "i", "o", "n", "(", ")", "\n">>
        \o lua_script \o <<"\n", "e", "n", "d">>

\* An instance of the tree: InstanceBuilder::new(class).with_name(name)
\* .with_property("Source", ..), and the children inserted under it.
Instance(class, name, source, children) ==
    [class |-> class, name |-> name, Source |-> source, children |-> children]

\* Variant of BuildPlugin: the placeholders are substituted in the whole
\* plugin, the wrapped script included.
BuildPluginSubstituteAll(text, p) ==
    Instance("Script", "run-in-roblox-plugin",
             CompleteSource(text, p.port, p.server_id),
             << Instance("ModuleScript", "Main",
                         CompleteSource(MainSource(p.lua_script),
                                        p.port, p.server_id),
                         <<>>) >>)

\* RunInRbxPlugin::build_plugin: the bootstrap Script as the root, the Main
\* ModuleScript inserted under it.
BuildPlugin(text, p) ==
    Instance("Script", "run-in-roblox-plugin",
             CompleteSource(text, p.port, p.server_id),
             << Instance("ModuleScript", "Main",
                         MainSource(p.lua_script), <<>>) >>)

\* rbx_xml::to_writer_default(output, &tree, &[root_ref]): the chunks the
\* encoder writes, in order.
Serialize(t) ==
    <<"<roblox>", t.class, t.name, t.Source,
      t.children[1].class, t.children[1].name, t.children[1].Source,
      "</roblox>">>

NoPlugin == [port |-> 0, server_id |-> <<>>, lua_script |-> <<>>]
NoTree == Instance("", "", <<>>, <<>>)

\* The pieces a template is made of, and the templates.
TemplatePieces == {PortPlaceholder, ServerIdPlaceholder, <<"x">>, <<"{">>}
Templates == UNION {[1..n -> TemplatePieces] : n \in 0..MaxPieces}

\* The inputs of RunInRbxPlugin: ports, session ids (those run() generates
\* and others), scripts.
PluginPorts == {7, Port}
GeneratedIds == {ServerIdText(r) : r \in SessionIds \cup {171}}
PluginServerIds ==
    GeneratedIds \cup {<<"s">>, PortPlaceholder, ServerIdPlaceholder}
Scripts ==
    { <<>>, <<"x">>, PortPlaceholder, <<"x">> \o ServerIdPlaceholder }

\* No RunInRbxPlugin is at hand.
PluginUnused ==
    /\ template = <<>>
    /\ plugin = NoPlugin
    /\ tree = NoTree
    /\ output = <<>>
    /\ writeResult = "none"

Init ==
    /\ options \in [place_path : PlacePaths,
                    studio_plugins_path : PluginsOptions,
                    studio_app_path : AppOptions]
    /\ LauncherStart
    /\ PluginUnused

\* ------------------------------------------------------------- main thread
\* An early `return Err(..)` / `?` / bail! of run(): the locals are dropped.
ReturnErr(step) ==
    /\ mainPc' = "returned"
    /\ result' = Err
    /\ failedStep' = step
    /\ tempDir' = DropTempDir(tempDir)

\* let temp_place_folder = tempdir()?;
Tempdir ==
    /\ mainPc = "tempdir"
    /\ \E ok \in BOOLEAN :
         IF ok
         THEN /\ tempDir' = "live"
              /\ mainPc' = "place"
              /\ UNCHANGED <<result, failedStep>>
         ELSE ReturnErr("tempdir")
    /\ UNCHANGED <<pluginVars, options, tempPlace, copied, pluginsPath, appPath, serverId,
                   exit_code, processExit, rendered, terminals, recvClosed,
                   queue>>
    /\ UNCHANGED runnerVars

\* match &options.place_path { Some(place_path) => {..copy..}, None => unimplemented!() }
PlaceStep ==
    /\ mainPc = "place"
    /\ IF ~options.place_path.some
       THEN \* unimplemented!(): the main thread panics, unwinding drops the
            \* TempDir, and the process ends with the panic status.
            /\ mainPc' = "exited"
            /\ processExit' = PanicExitCode
            /\ tempDir' = DropTempDir(tempDir)
            /\ UNCHANGED <<tempPlace, copied, result, failedStep>>
       ELSE LET check == PlaceExtensionCheck(options.place_path.val) IN
            IF check # "ok"
            THEN /\ ReturnErr("place")
                 /\ UNCHANGED <<tempPlace, copied, processExit>>
            ELSE /\ tempPlace' = TempPlaceName(Extension(options.place_path.val).val)
                 /\ \E ok \in BOOLEAN :   \* fs::copy(place_path, &temp_place_path)?
                      IF ok
                      THEN /\ copied' = TRUE
                           /\ mainPc' = "plugins"
                           /\ UNCHANGED <<result, failedStep, tempDir>>
                      ELSE /\ ReturnErr("place")
                           /\ UNCHANGED copied
                 /\ UNCHANGED processExit
    /\ UNCHANGED <<pluginVars, options, pluginsPath, appPath, serverId, exit_code,
                   rendered, terminals, recvClosed, queue>>
    /\ UNCHANGED runnerVars

\* let studio_plugins_path = match &options.studio_plugins_path { .. };
PluginsStep ==
    /\ mainPc = "plugins"
    /\ CASE options.studio_plugins_path \in {"missing", "file"} ->
              /\ ReturnErr("plugins")
              /\ UNCHANGED pluginsPath
         [] options.studio_plugins_path = "dir" ->
              /\ pluginsPath' = "given"
              /\ mainPc' = "app"
              /\ UNCHANGED <<result, failedStep, tempDir>>
         [] options.studio_plugins_path = "unset" ->
              \E located \in BOOLEAN :   \* RobloxStudio::locate()
                 IF located
                 THEN /\ pluginsPath' = "located"
                      /\ mainPc' = "app"
                      /\ UNCHANGED <<result, failedStep, tempDir>>
                 ELSE /\ ReturnErr("plugins")
                      /\ UNCHANGED pluginsPath
    /\ UNCHANGED <<pluginVars, options, tempPlace, copied, appPath, serverId, exit_code,
                   processExit, rendered, terminals, recvClosed, queue>>
    /\ UNCHANGED runnerVars

\* let studio_app_path = match &options.studio_app_path { .. };
AppStep ==
    /\ mainPc = "app"
    /\ CASE options.studio_app_path \in {"missing", "dir"} ->
              /\ ReturnErr("app")
              /\ UNCHANGED appPath
         [] options.studio_app_path = "file" ->
              /\ appPath' = "given"
              /\ mainPc' = "script"
              /\ UNCHANGED <<result, failedStep, tempDir>>
         [] options.studio_app_path = "unset" ->
              \E located \in BOOLEAN :   \* RobloxStudio::locate()
                 IF located
                 THEN /\ appPath' = "located"
                      /\ mainPc' = "script"
                      /\ UNCHANGED <<result, failedStep, tempDir>>
                 ELSE /\ ReturnErr("app")
                      /\ UNCHANGED appPath
    /\ UNCHANGED <<pluginVars, options, tempPlace, copied, pluginsPath, serverId,
                   exit_code, processExit, rendered, terminals, recvClosed,
                   queue>>
    /\ UNCHANGED runnerVars

\* Variant of ScriptReadOutcome: a failed read does not end run().
ScriptReadOutcomeIgnored(scriptRead) == "spawn"

\* let script_contents = fs::read_to_string(&options.script_path)?;
\* scriptRead: the read succeeded.  The `?` returns the error; run() goes on
\* to the session id and the runner only with the contents.
ScriptReadOutcome(scriptRead) == IF scriptRead THEN "spawn" ELSE "error"

ReadScript ==
    /\ mainPc = "script"
    /\ \E ok \in BOOLEAN :
         IF ScriptReadOutcome(ok) = "spawn"
         THEN /\ mainPc' = "spawn"
              \* a failed read is recorded even if run() were to go on
              /\ failedStep' = IF ok THEN failedStep ELSE "script"
              /\ UNCHANGED <<result, tempDir>>
         ELSE ReturnErr("script")
    /\ UNCHANGED <<pluginVars, options, tempPlace, copied, pluginsPath, appPath, serverId,
                   exit_code, processExit, rendered, terminals, recvClosed,
                   queue>>
    /\ UNCHANGED runnerVars

\* server_id, PlaceRunner { .. }, mpsc::channel(), thread::spawn, exit_code = 0
SpawnRunner ==
    /\ mainPc = "spawn"
    /\ \E r \in SessionIds :
         /\ serverId' = r
         /\ placeRunner' = NewPlaceRunner(tempPlace, r, appPath, pluginsPath)
    /\ senderAlive' = TRUE
    /\ runnerPc' = "install"
    /\ exit_code' = 0
    /\ mainPc' = "loop"
    /\ UNCHANGED <<pluginVars, options, tempDir, tempPlace, copied, pluginsPath, appPath,
                   result, processExit, rendered, terminals, recvClosed,
                   queue, sent, app, terminated, submitted, failedStep,
                   dropped>>

\* One iteration of `while let Some(message) = receiver.recv()? { .. }`, and
\* the `Ok(exit_code)` after the loop.
ResultLoopStep ==
    /\ mainPc = "loop"
    /\ RecvOutcome(queue, senderAlive) # "block"
    /\ IF RecvOutcome(queue, senderAlive) = "closed"
       THEN /\ mainPc' = "returned"
            /\ result' = RecvErrorResult(exit_code)
            /\ tempDir' = DropTempDir(tempDir)
            /\ UNCHANGED failedStep
            /\ recvClosed' = TRUE
            /\ terminals' = terminals + 1
            /\ UNCHANGED <<queue, rendered, exit_code>>
       ELSE LET d == Dequeue(queue) IN
            /\ queue' = d.rest
            /\ terminals' = IF d.msg.some THEN terminals ELSE terminals + 1
            /\ UNCHANGED recvClosed
            /\ IF LoopContinues(d.msg)
               THEN /\ IF d.msg.some
                       THEN /\ rendered' = Append(rendered,
                                  [body |-> d.msg.body,
                                   color |-> Colored(d.msg.level),
                                   sid |-> d.msg.sid])
                            /\ exit_code' = ExitCodeAfter(exit_code, d.msg.level)
                       ELSE UNCHANGED <<rendered, exit_code>>
                    /\ UNCHANGED <<mainPc, result, failedStep, tempDir>>
               ELSE /\ mainPc' = "returned"
                    /\ result' = Ok(exit_code)
                    /\ tempDir' = DropTempDir(tempDir)
                    /\ UNCHANGED <<rendered, exit_code, failedStep>>
    /\ UNCHANGED <<pluginVars, options, tempPlace, copied, pluginsPath, appPath, serverId,
                   processExit>>
    /\ UNCHANGED runnerVars

\* match run(options) { Ok(exit_code) => process::exit(exit_code),
\*                      Err(err) => { log::error!(..); process::exit(2) } }
MainExit ==
    /\ mainPc = "returned"
    /\ mainPc' = "exited"
    /\ processExit' = ProcessExitCode(result)
    /\ UNCHANGED <<pluginVars, options, tempDir, tempPlace, copied, pluginsPath, appPath,
                   serverId, exit_code, result, rendered, terminals,
                   recvClosed, queue, failedStep>>
    /\ UNCHANGED runnerVars

MainNext ==
    \/ Tempdir
    \/ PlaceStep
    \/ PluginsStep
    \/ AppStep
    \/ ReadScript
    \/ SpawnRunner
    \/ ResultLoopStep
    \/ MainExit

\* ----------------------------------------------------------- runner thread
\* thread::spawn(move || { place_runner.run(sender).unwrap(); }): when run
\* returns an error the thread panics; either way the Sender, moved into the
\* thread, is dropped when the thread ends.  Threads stop when the process
\* exits.
ProcessAlive == mainPc # "exited"

\* place_runner.run returned Err: its locals are dropped (the process handle
\* terminates the application if it is alive), then the Sender.
RunnerErr(step) ==
    /\ runnerPc' = "panicked"
    /\ senderAlive' = FALSE
    /\ failedStep' = step
    /\ app' = IF app = "running" THEN "killed" ELSE app

\* Step 5: build the bridge artifact and write it into the plugins directory.
RunnerInstall ==
    /\ ProcessAlive
    /\ runnerPc = "install"
    /\ \E ok \in BOOLEAN :
         IF ok
         THEN /\ runnerPc' = "transport"
              /\ UNCHANGED <<senderAlive, failedStep, app>>
         ELSE RunnerErr("artifact")
    /\ UNCHANGED <<pluginVars, options, placeRunner, sent, queue, terminated, submitted,
                   dropped>>
    /\ UNCHANGED mainVars

\* Step 6: start the event transport on the port, before the launch.
RunnerStartTransport ==
    /\ ProcessAlive
    /\ runnerPc = "transport"
    /\ \E ok \in BOOLEAN :
         IF ok
         THEN /\ runnerPc' = "launch"
              /\ UNCHANGED <<senderAlive, failedStep, app>>
         ELSE RunnerErr("transport")
    /\ UNCHANGED <<pluginVars, options, placeRunner, sent, queue, terminated, submitted,
                   dropped>>
    /\ UNCHANGED mainVars

\* Step 7: launch the application on the temp place.
RunnerLaunch ==
    /\ ProcessAlive
    /\ runnerPc = "launch"
    /\ \E ok \in BOOLEAN :
         IF ok
         THEN /\ runnerPc' = "forward"
              /\ app' = "running"
              /\ UNCHANGED <<senderAlive, failedStep>>
         ELSE RunnerErr("launch")
    /\ UNCHANGED <<pluginVars, options, placeRunner, sent, queue, terminated, submitted,
                   dropped>>
    /\ UNCHANGED mainVars

\* The transport compares the submission's session id with the expected one.
Accepts(sid, expected) == sid = expected

\* The transport's handler of one inbound submission from the application.
\* Submissions are serialized by the transport, so the order of the handler's
\* runs is the arrival order.
Submit(sid, terminate, level, body) ==
    /\ ProcessAlive
    /\ runnerPc \in {"forward", "teardown"}
    /\ app = "running"
    /\ submitted < MaxSubmissions
    /\ submitted' = submitted + 1
    /\ IF ~Accepts(sid, placeRunner.server_id)
       THEN /\ dropped' = dropped + 1
            /\ UNCHANGED <<queue, sent, terminated, runnerPc>>
       ELSE IF terminated
       THEN UNCHANGED <<queue, sent, terminated, runnerPc, dropped>>
       ELSE IF terminate
       THEN /\ queue' = Append(queue, Terminate(sid))
            /\ sent' = Append(sent, Terminate(sid))
            /\ terminated' = TRUE
            /\ runnerPc' = "teardown"
            /\ UNCHANGED dropped
       ELSE /\ queue' = Append(queue, Output(level, body, sid))
            /\ sent' = Append(sent, Output(level, body, sid))
            /\ UNCHANGED <<terminated, runnerPc, dropped>>
    /\ UNCHANGED <<pluginVars, options, placeRunner, senderAlive, app, failedStep>>
    /\ UNCHANGED mainVars

\* Step 8, normal teardown after the Terminate was forwarded: the
\* application is terminated if still alive, the transport is shut down, and
\* the thread ends.
RunnerTeardown ==
    /\ ProcessAlive
    /\ runnerPc = "teardown"
    /\ runnerPc' = "done"
    /\ app' = IF app = "running" THEN "killed" ELSE app
    /\ senderAlive' = FALSE
    /\ UNCHANGED <<pluginVars, options, placeRunner, sent, queue, terminated, submitted,
                   failedStep, dropped>>
    /\ UNCHANGED mainVars

\* The runner fails while it forwards events (an error of the transport or
\* of the orchestrator itself).
RunnerFail ==
    /\ ProcessAlive
    /\ runnerPc = "forward"
    /\ RunnerErr("runtime")
    /\ UNCHANGED <<pluginVars, options, placeRunner, sent, queue, terminated, submitted,
                   dropped>>
    /\ UNCHANGED mainVars

\* The application process exits on its own.
AppCrash ==
    /\ app = "running"
    /\ app' = "crashed"
    /\ UNCHANGED <<pluginVars, options, placeRunner, runnerPc, senderAlive, sent, queue,
                   terminated, submitted, failedStep, dropped>>
    /\ UNCHANGED mainVars

\* RunInRbxPlugin::write(output): build the tree and encode it into the
\* writer.  The encoder writes as it goes; an error of the writer (or of the
\* encoder) after k chunks is returned as the EncodeError.
PluginWrite ==
    /\ writeResult = "none"
    /\ plugin # NoPlugin
    /\ tree' = BuildPlugin(Flatten(template), plugin)
    /\ \E k \in 0..Len(Serialize(tree')) :
         /\ output' = SubSeq(Serialize(tree'), 1, k)
         /\ writeResult' = IF k = Len(Serialize(tree')) THEN "Ok"
                           ELSE "EncodeError"
    /\ UNCHANGED <<template, plugin, options>>
    /\ UNCHANGED mainVars
    /\ UNCHANGED <<runnerVars, queue, failedStep>>

RunnerNext ==
    \/ RunnerInstall
    \/ RunnerStartTransport
    \/ RunnerLaunch
    \/ RunnerTeardown

SubmitNext ==
    \E sid \in SessionIds, terminate \in BOOLEAN,
       level \in OutputLevel, body \in Bodies :
         Submit(sid, terminate, level, body)

Next ==
    \/ MainNext
    \/ RunnerNext
    \/ SubmitNext
    \/ RunnerFail
    \/ AppCrash

Spec == Init /\ [][Next]_vars

\* RunInRbxPlugin on its own: a plugin for some template, port, session id
\* and script is written once.
PluginInit ==
    /\ options = [place_path |-> None, studio_plugins_path |-> "unset",
                  studio_app_path |-> "unset"]
    /\ LauncherStart
    /\ template \in Templates
    /\ plugin \in [port : PluginPorts, server_id : PluginServerIds,
                   lua_script : Scripts]
    /\ tree = NoTree
    /\ output = <<>>
    /\ writeResult = "none"

PluginNext == PluginWrite

PluginSpec == PluginInit /\ [][PluginNext]_vars

\* The threads are scheduled fairly; the application and failures are not.
FairSpec == Spec /\ WF_vars(MainNext) /\ WF_vars(RunnerNext)

\* ------------------------------------------------------------------ claims
\* The Output messages among a sequence of channel messages.
Logs(msgs) == SelectSeq(msgs, LAMBDA m : m.some)
HasError(msgs) ==
    \E i \in 1..Len(msgs) : msgs[i].some /\ msgs[i].level = "Error"
LoopEndedBySentinel == mainPc \in {"returned", "exited"} /\ result.ok

\* C1: when the result loop ends on the Terminate sentinel, run() returns 1
\* if an Error-level Output was delivered before the sentinel and 0
\* otherwise, and that value is the launcher's exit status.
C1_ExitStatus ==
    LoopEndedBySentinel =>
        /\ result.code = (IF HasError(sent) THEN 1 ELSE 0)
        /\ mainPc = "exited" => processExit = result.code

\* C1 witness: a run that received a Warning and an Error and exited with 1.
C1_Witness ==
    /\ mainPc = "exited"
    /\ result.ok
    /\ processExit = 1
    /\ \E i \in 1..Len(sent) : sent[i].some /\ sent[i].level = "Warning"

\* C2: the lines rendered so far are exactly the first Output messages put
\* on the queue, in queue order; together with the Outputs still buffered
\* they are all of them; after the sentinel all of them have been rendered.
C2_RenderedInOrder ==
    LET logs == Logs(sent) IN
    /\ Len(rendered) <= Len(logs)
    /\ \A i \in 1..Len(rendered) :
         /\ rendered[i].body = logs[i].body
         /\ rendered[i].sid = logs[i].sid
         /\ rendered[i].color = Colored(logs[i].level)
    /\ mainPc = "loop" => Len(rendered) + Len(Logs(queue)) = Len(logs)
    /\ LoopEndedBySentinel => Len(rendered) = Len(logs)

\* C2 witness: two different Outputs were buffered together and both have
\* been rendered by the time the loop ended on the sentinel.
C2_Witness ==
    /\ LoopEndedBySentinel
    /\ Len(rendered) = 2
    /\ rendered[1] # rendered[2]

\* C3: when the runner thread failed (the Sender is dropped and no sentinel
\* was sent), run() does not return Ok and the launcher's exit status is 2,
\* never 0 or 1, whatever was received before.
C3_ClosedQueueFails ==
    runnerPc = "panicked" =>
        /\ mainPc = "returned" => ~result.ok
        /\ mainPc = "exited" => processExit = ErrExitCode
        /\ processExit \notin {0, 1}

\* C3 witness: the runner failed after an Error-level Output was received,
\* and the launcher exited with 2.
C3_Witness ==
    /\ runnerPc = "panicked"
    /\ recvClosed
    /\ exit_code = 1
    /\ mainPc = "exited"
    /\ processExit = ErrExitCode

\* C4: every message put on the queue, buffered in it or rendered comes from
\* a submission that carried the id generated for this run, and the exit
\* code is 1 only after an Error-level submission of this run.
C4_StaleInvisible ==
    /\ \A i \in 1..Len(sent) : sent[i].sid = serverId
    /\ \A i \in 1..Len(queue) : queue[i].sid = serverId
    /\ \A i \in 1..Len(rendered) : rendered[i].sid = serverId
    /\ exit_code = 1 =>
         \E i \in 1..Len(sent) :
            sent[i].some /\ sent[i].level = "Error" /\ sent[i].sid = serverId

\* C4 witness: two submissions of another session were discarded, the
\* Terminate of this session ended the run with status 0 and no output.
C4_Witness ==
    /\ dropped = 2
    /\ sent = <<Terminate(serverId)>>
    /\ rendered = <<>>
    /\ mainPc = "exited"
    /\ processExit = 0

\* C5 (as claimed): once the application has crashed before any submission
\* arrived, the launcher eventually exits with status 2.
C5_CrashSurfaces ==
    (app = "crashed" /\ submitted = 0)
        ~> (mainPc = "exited" /\ processExit = ErrExitCode)

\* The Terminate sentinels among a sequence of channel messages.
Sentinels(msgs) == SelectSeq(msgs, LAMBDA m : ~m.some)
\* The session's terminal indicator has been produced: the sentinel was
\* sent, or the Sender was dropped.
TerminalProduced == serverId # -1 /\ (terminated \/ ~senderAlive)
\* The runner is forwarding and the application has not yet reported the end.
AwaitingApplication == runnerPc = "forward" /\ ~terminated

\* C6: at most one sentinel is ever sent; the result loop observes at most
\* one terminal indicator (sentinel or closed queue) and exactly one when it
\* has returned; once a terminal indicator is produced the launcher
\* eventually exits; and while the result loop runs, the runner thread gets
\* to the point where only the application is awaited, or the launcher exits.
C6_OneTerminalAndReturn ==
    /\ [](/\ Len(Sentinels(sent)) <= 1
          /\ terminals <= 1
          /\ (mainPc \in {"returned", "exited"} /\ serverId # -1)
                => terminals = 1)
    /\ TerminalProduced ~> (mainPc = "exited")
    /\ (mainPc = "loop") ~> (mainPc = "exited" \/ AwaitingApplication)

\* C6 witness: the sentinel was sent and observed, and the launcher exited.
C6_Witness ==
    /\ terminated
    /\ terminals = 1
    /\ result.ok
    /\ mainPc = "exited"

\* The failures of orchestrator steps 1-6: temp directory, workspace copy
\* (and its extension checks), script read, artifact installation,
\* transport start.  (Step 4, the session id, cannot fail.)
SetupSteps == {"tempdir", "place", "script", "artifact", "transport"}

\* C7: when one of steps 1-6 has failed, the application process has not
\* been launched, run() does not return Ok, and the launcher's exit status
\* is 2.
C7_SetupFailureAborts ==
    failedStep \in SetupSteps =>
        /\ app = "notlaunched"
        /\ mainPc = "returned" => ~result.ok
        /\ mainPc = "exited" => processExit = ErrExitCode

\* C7 witness: the transport failed to start and the launcher exited with 2.
C7_Witness ==
    /\ failedStep = "transport"
    /\ mainPc = "exited"
    /\ processExit = ErrExitCode
    /\ app = "notlaunched"

\* C8 (as claimed): when the launcher has exited, the application process is
\* not running.
C8_AppTerminatedAtExit == mainPc = "exited" => app # "running"

\* The place file names that have no extension, or one that is not Unicode.
RejectedPlaceNames == { <<"g">>, <<Dot, "g">>, <<"g", Dot, BadChar>> }

\* C9: for a place path without a (Unicode) extension nothing is copied into
\* the temp directory, no temp place path is formed, the runner thread is
\* never spawned, and run() does not return Ok.
C9_NoExtensionRejected ==
    (options.place_path.some /\ options.place_path.val \in RejectedPlaceNames) =>
        /\ ~copied
        /\ tempPlace = <<>>
        /\ runnerPc = "unspawned"
        /\ mainPc \in {"tempdir", "place", "returned", "exited"}
        /\ mainPc = "returned" => ~result.ok
        /\ mainPc = "exited" => processExit = ErrExitCode

\* C9 witness: a place path whose extension is not Unicode was rejected
\* after the temp directory was created, and the launcher exited with 2.
C9_Witness ==
    /\ options.place_path = Some(<<"g", Dot, BadChar>>)
    /\ failedStep = "place"
    /\ tempDir = "released"
    /\ mainPc = "exited"
    /\ processExit = ErrExitCode

\* C10: once run() has returned, by whichever path, the temp directory it
\* created no longer exists.
C10_TempDirReleased ==
    mainPc \in {"returned", "exited"} => tempDir # "live"

\* C10 witness: run() returned the closed-queue error after the temp
\* directory had been created, and the directory is released.
C10_Witness ==
    /\ mainPc = "returned"
    /\ recvClosed
    /\ tempDir = "released"

\* C14 (as claimed): a run without a place path, once its temp directory
\* exists, does not end before the session id is generated and the runner is
\* spawned: it goes on to the launch and the result loop.
C14_NoPlaceProceeds ==
    (~options.place_path.some /\ tempDir # "none" /\ mainPc = "exited") =>
        /\ serverId # -1
        /\ runnerPc # "unspawned"
        /\ processExit # PanicExitCode

\* C15: a step of the result loop that receives an Error-level Output
\* renders it, sets the exit code to 1 and stays in the loop without
\* returning or exiting; and a run that received an Error and ended on the
\* sentinel has rendered every Output sent and returns 1.
C15_ErrorNotFatal ==
    /\ [][(/\ mainPc = "loop"
           /\ queue # <<>>
           /\ Head(queue).some
           /\ Head(queue).level = "Error"
           /\ queue' = Tail(queue))
          => (/\ mainPc' = "loop"
              /\ rendered' = Append(rendered,
                    [body |-> Head(queue).body, color |-> "red",
                     sid |-> Head(queue).sid])
              /\ exit_code' = 1
              /\ result' = result
              /\ processExit' = processExit)]_vars
    /\ []((LoopEndedBySentinel /\ HasError(sent))
            => (Len(rendered) = Len(Logs(sent)) /\ result.code = 1))

\* C15 witness: an Error was rendered first, another Output after it, and
\* the run ended on the sentinel with status 1.
C15_Witness ==
    /\ mainPc = "exited"
    /\ result.ok
    /\ processExit = 1
    /\ Len(rendered) >= 2
    /\ rendered[1].color = "red"
    /\ rendered[2].color # "red"

\* Submissions of this session that arrived after its Terminate.
LateSubmissions == submitted - dropped - Len(sent)

\* C16: once the Terminate was forwarded nothing more is put on the queue
\* and the runner does not fail; once the result loop has ended on the
\* sentinel, what was rendered and what run() returned never change; and the
\* launcher's exit status is the one the Outputs before the sentinel give.
C16_DoneIsTerminal ==
    /\ [][terminated => sent' = sent]_vars
    /\ [][LoopEndedBySentinel
            => (rendered' = rendered /\ result' = result
                /\ exit_code' = exit_code)]_vars
    /\ [](terminated
            => (/\ runnerPc \in {"teardown", "done"}
                /\ failedStep = "none"
                /\ mainPc = "exited"
                     => processExit = (IF HasError(sent) THEN 1 ELSE 0)))

\* C16 witness: a submission of this session arrived after its Terminate,
\* and the launcher exited with 0 having rendered nothing.
C16_Witness ==
    /\ terminated
    /\ LateSubmissions >= 1
    /\ rendered = <<>>
    /\ mainPc = "exited"
    /\ processExit = 0

\* C17 (as claimed): when a supplied plugins path is missing or not a
\* directory, a supplied application path is missing or a directory, or the
\* script cannot be read, no session id is generated, the runner thread is
\* not spawned, the application is not launched, and the launcher's exit
\* status is 2.
C17_BadPathsRejected ==
    (\/ options.studio_plugins_path \in {"missing", "file"}
     \/ options.studio_app_path \in {"missing", "dir"}
     \/ failedStep = "script") =>
        /\ serverId = -1
        /\ runnerPc = "unspawned"
        /\ app = "notlaunched"
        /\ mainPc = "exited" => processExit = ErrExitCode

\* C18: once the runner thread is spawned, the copy has been made, and the
\* place path the runner holds is the temp place path, named
\* run-in-roblox-place, different from the caller's path and with the
\* caller's extension.
C18_RunnerGetsTempCopy ==
    runnerPc # "unspawned" =>
        /\ copied
        /\ options.place_path.some
        /\ placeRunner.place_path = tempPlace
        /\ Head(placeRunner.place_path) = "run-in-roblox-place"
        /\ placeRunner.place_path # options.place_path.val
        /\ Extension(placeRunner.place_path) = Extension(options.place_path.val)

\* C18 witness: the application runs on the copy of g.x.l, whose extension
\* is l.
C18_Witness ==
    /\ options.place_path = Some(<<"g", Dot, "x", Dot, "l">>)
    /\ placeRunner.place_path = <<"run-in-roblox-place", Dot, "l">>
    /\ app = "running"

\* ---------------------------------------------------- claims on plugin.rs
\* write has run and the tree it built can be read.
PluginBuilt == writeResult # "none"
\* The Main node of the tree.
MainNode == tree.children[1]
\* pat occurs in text.
Contains(text, pat) ==
    \E i \in 1..(Len(text) - Len(pat) + 1) :
        SubSeq(text, i, i + Len(pat) - 1) = pat

\* C11: the Main node of the built tree is a ModuleScript named Main whose
\* Source is "return function()\n", the script, "\nend"; a successful write
\* puts that Source into the output.
C11_MainSourceRoundTrip ==
    PluginBuilt =>
        LET expected ==
              <<"r", "e", "t", "u", "r", "n", " ", "f", "u", "n", "c", "t",
                "i", "o", "n", "(", ")", "\n">>
                  \o plugin.lua_script \o <<"\n", "e", "n", "d">>
        IN /\ Len(tree.children) = 1
           /\ MainNode.name = "Main"
           /\ MainNode.Source = expected
           /\ writeResult = "Ok" => output[7] = expected

\* C11 witness: a plugin with the script x{{SERVER_ID}} was written.
C11_Witness ==
    /\ writeResult = "Ok"
    /\ plugin.lua_script = <<"x">> \o ServerIdPlaceholder
    /\ Len(MainNode.Source) = 36

\* The decimal text of the ports used.
PortText(port) == IF port = 7 THEN <<"7">> ELSE <<"5", "0", "3", "1", "2">>
\* The template with each placeholder piece replaced by its value.
RECURSIVE Substituted(_, _, _)
Substituted(pieces, port, server_id) ==
    IF pieces = <<>> THEN <<>>
    ELSE (IF Head(pieces) = PortPlaceholder THEN PortText(port)
          ELSE IF Head(pieces) = ServerIdPlaceholder THEN server_id
          ELSE Head(pieces))
         \o Substituted(Tail(pieces), port, server_id)
\* id is "run-in-roblox-" followed by hexadecimal digits.
HasGeneratedForm(id) ==
    /\ Len(id) > 14
    /\ SubSeq(id, 1, 14) =
         <<"r", "u", "n", "-", "i", "n", "-", "r", "o", "b", "l", "o", "x", "-">>
    /\ \A i \in 15..Len(id) : \E d \in 1..16 : id[i] = Digits[d]

\* C12: the bootstrap node is the root, a Script named run-in-roblox-plugin,
\* whose Source is the template with every {{PORT}} replaced by the decimal
\* port and every {{SERVER_ID}} by the session id; when the session id has
\* the form run() generates, neither placeholder occurs in that Source.
C12_BootstrapSubstituted ==
    PluginBuilt =>
        /\ tree.name = "run-in-roblox-plugin"
        /\ tree.Source = Substituted(template, plugin.port, plugin.server_id)
        /\ HasGeneratedForm(plugin.server_id) =>
             /\ ~Contains(tree.Source, PortPlaceholder)
             /\ ~Contains(tree.Source, ServerIdPlaceholder)

\* C12 witness: the template {{PORT}}{{SERVER_ID}}{{PORT}} was substituted
\* with port 50312 and the session id run-in-roblox-ab.
C12_Witness ==
    /\ PluginBuilt
    /\ template = <<PortPlaceholder, ServerIdPlaceholder, PortPlaceholder>>
    /\ plugin.port = Port
    /\ plugin.server_id = ServerIdText(171)
    /\ Len(tree.Source) = 26
    /\ SubSeq(tree.Source, 20, 21) = <<"a", "b">>

\* C13 (as claimed): when write returned the EncodeError, the output holds
\* nothing of the artifact.
C13_NoPartialArtifact == writeResult = "EncodeError" => output = <<>>

\* C19: the script stands unchanged in the Main node's Source between the
\* 18 characters of the wrapper's first line and the 4 of its last, and the
\* bootstrap node's Source is the one built for any other script with the
\* same template, port and session id.
C19_SubstitutionOnlyInBootstrap ==
    PluginBuilt =>
        /\ Len(MainNode.Source) = Len(plugin.lua_script) + 22
        /\ SubSeq(MainNode.Source, 19, Len(MainNode.Source) - 4)
             = plugin.lua_script
        /\ \A other \in Scripts :
             BuildPlugin(Flatten(template),
                         [plugin EXCEPT !.lua_script = other]).Source
               = tree.Source

\* C19 witness: the script is {{PORT}}, the template holds {{PORT}} too;
\* the placeholder is gone from the bootstrap node and still in Main.
C19_Witness ==
    /\ PluginBuilt
    /\ plugin.lua_script = PortPlaceholder
    /\ template = <<PortPlaceholder>>
    /\ ~Contains(tree.Source, PortPlaceholder)
    /\ Contains(MainNode.Source, PortPlaceholder)
====
